---- MODULE Spec2Model ----
(***************************************************************************)
(* PoolAllocator of src/utils/Allocator.h as a state machine.              *)
(*                                                                         *)
(* A pointer to a MemBlockNode is a node id in 1..MaxBlocks, NULL is 0.    *)
(* A char pointer into a block is [blk, off]: off counts bytes from the    *)
(* start of the block's data region, the byte after the node's             *)
(* MemBlockNode header.                                                    *)
(* size_t is SizeBits wide; every size_t computation is taken % SizeMod.   *)
(* calloc() is assumed to succeed (it returns the lowest unused node).     *)
(* A fault (trapping null dereference, division trap, CrashIf) ends the    *)
(* program: crashed becomes TRUE and no operation is enabled afterwards.   *)
(***************************************************************************)
EXTENDS Integers, Sequences, FiniteSets, TLC

\* ---- bounds of the model
SizeBits == 16
MaxBlocks == 3
MaxAllocs == 3

\* ---- program constants
NULL == 0
SizeofMemBlockNode == 24
DefaultMinBlockSize == 4096

SizeMod == 2 ^ SizeBits
SIZE_MAX == SizeMod - 1

\* ---- inputs
AllocSizes == {0, 1, 8, 17, SIZE_MAX - 7, SIZE_MAX}
PieceSizes == {0, 8, 17}
MinBlockSizes == {12, 16}
PieceIndexes == 0 .. MaxAllocs
\* what an integer division by zero yields when it does not trap:
\* 0 (ARM udiv) or all ones (RISC-V divu); "trap" is x86 #DE
DivZeroOutcomes == {"trap", "zero", "ones"}

VARIABLES
    minBlockSize,   \* size_t minBlockSize
    currMem,        \* char *currMem, as [blk, off]
    currBlock,      \* MemBlockNode *currBlock
    firstBlock,     \* MemBlockNode *firstBlock
    heap,           \* the MemBlockNode objects: node id -> [live, next, size, free, alloc]
    crashed,        \* the program has faulted
    allocs,         \* history: what each Alloc since the pool was last empty returned
    lastOp,         \* history: the last operation, its arguments and its result
    helper,         \* history: the last call of a static Allocator helper
    fa              \* a FixedArray<T, StackBufInBytes> object

vars == <<minBlockSize, currMem, currBlock, firstBlock, heap, crashed, allocs, lastOp, helper, fa>>
poolVars == <<minBlockSize, currMem, currBlock, firstBlock, heap>>

Nodes == 1 .. MaxBlocks
NullMem == [blk |-> NULL, off |-> 0]
\* a node that is not allocated
FreeNode == [live |-> FALSE, next |-> NULL, size |-> 0, free |-> 0, alloc |-> 0]

Op(name, arg, n, ret, empty, freed) ==
    [op |-> name, arg |-> arg, n |-> n, ret |-> ret, empty |-> empty, freed |-> freed]

Range(s) == {s[i] : i \in DOMAIN s}

\* an Allocator handle is NULL or the address of the pool
ThisPool == 1
\* a block of the platform heap, as a pointer
PlatMem == [blk |-> -1, off |-> 0]
\* a call of a platform heap function
PlatCall(f, p, size) == [f |-> f, p |-> p, size |-> size]
\* a call of a static helper: its arguments, the platform heap calls it made
\* itself, its result and whether it ran memcpy
Call(fn, a, p, size, padding, plat, ret, copied) ==
    [fn |-> fn, a |-> a, p |-> p, size |-> size, padding |-> padding,
     plat |-> plat, ret |-> ret, copied |-> copied]
NoCall == Call("none", NULL, NullMem, 0, 0, <<>>, NullMem, FALSE)

\* a FixedArray: sizeof(T), StackBufInBytes, the elCount it was constructed
\* with, memBuf (NULL, or the size in bytes of the malloc() block it points
\* to), whether malloc() was called and failed, and what the last Get()
\* returned ("stackBuf", "memBuf" or "none")
FixedArray(state, sizeofT, budget, elCount, memBuf, failed, got) ==
    [state |-> state, sizeofT |-> sizeofT, budget |-> budget, elCount |-> elCount,
     memBuf |-> memBuf, failed |-> failed, got |-> got]
NoBuf == [null |-> TRUE, bytes |-> 0]
HeapBuf(bytes) == [null |-> FALSE, bytes |-> bytes]
NoFixedArray == FixedArray("none", 1, 1, 0, NoBuf, FALSE, "none")

\* ---- RoundUpTo8: ((n+8-1)/8)*8 in size_t arithmetic
RoundUpTo8(n) == (((n + 8 - 1) % SizeMod) \div 8) * 8

\* ---- MemBlockNode::Used
Used(node) == (heap[node].size - heap[node].free) % SizeMod

\* ---- CrashIf / CrashAlwaysIf (BaseUtil.h): crash when the condition holds
CrashIf(cond) == cond
CrashAlwaysIf(cond) == cond

\* ---- PoolAllocator::Init
InitFields == [currBlock |-> NULL, firstBlock |-> NULL, currMem |-> NullMem]

\* ---- PoolAllocator::PoolAllocator
Init ==
    /\ minBlockSize = DefaultMinBlockSize
    /\ currBlock = InitFields.currBlock
    /\ firstBlock = InitFields.firstBlock
    /\ currMem = InitFields.currMem
    /\ heap = [b \in Nodes |-> FreeNode]
    /\ crashed = FALSE
    /\ allocs = <<>>
    /\ lastOp = Op("new", 0, 0, NullMem, TRUE, <<>>)
    /\ helper = NoCall
    /\ fa = NoFixedArray

\* ---- PoolAllocator::SetMinBlockSize
SetMinBlockSize_late(newMinBlockSize) ==
    /\ ~crashed
    /\ minBlockSize' = newMinBlockSize
    /\ crashed' = CrashIf(currBlock # NULL)
    /\ lastOp' = Op("SetMinBlockSize", newMinBlockSize, 0, NullMem, firstBlock = NULL, <<>>)
    /\ UNCHANGED <<currMem, currBlock, firstBlock, heap, allocs>>

SetMinBlockSize(newMinBlockSize) ==
    /\ ~crashed
    /\ IF CrashIf(currBlock # NULL)
       THEN crashed' = TRUE /\ UNCHANGED minBlockSize
       ELSE minBlockSize' = newMinBlockSize /\ UNCHANGED crashed
    /\ lastOp' = Op("SetMinBlockSize", newMinBlockSize, 0, NullMem, firstBlock = NULL, <<>>)
    /\ UNCHANGED <<currMem, currBlock, firstBlock, heap, allocs>>

\* ---- FreeAll's loop: the nodes passed to free(), in order. The fuel stops
\* ---- the walk of a cyclic chain after it has shown a node twice.
RECURSIVE Chain(_, _)
Chain_headOnly(curr, fuel) ==
    IF curr = NULL \/ fuel = 0 THEN <<>> ELSE <<curr>>

Chain(curr, fuel) ==
    IF curr = NULL \/ fuel = 0
    THEN <<>>
    ELSE <<curr>> \o Chain(heap[curr].next, fuel - 1)

\* ---- PoolAllocator::FreeAll, with the fields its closing Init() call assigns
FreeAllBody(fields) ==
    /\ ~crashed
    /\ LET freed == Chain(firstBlock, MaxBlocks + 1)
       IN /\ heap' = [b \in Nodes |-> IF b \in Range(freed) THEN FreeNode ELSE heap[b]]
          /\ lastOp' = Op("FreeAll", 0, 0, NullMem, firstBlock = NULL, freed)
    /\ currBlock' = fields.currBlock
    /\ firstBlock' = fields.firstBlock
    /\ currMem' = fields.currMem
    /\ allocs' = <<>>
    /\ UNCHANGED <<minBlockSize, crashed>>

FreeAll_noInit ==
    FreeAllBody([currBlock |-> currBlock, firstBlock |-> firstBlock, currMem |-> currMem])

FreeAll == FreeAllBody(InitFields)

\* ---- calloc(): the node it returns
Calloc == CHOOSE b \in Nodes : ~heap[b].live /\ \A c \in Nodes : ~heap[c].live => b <= c

\* ---- AllocBlock lines 115-118: the capacity of the new block
NewBlockSize_min(minSize0) == minBlockSize

NewBlockSize(minSize0) ==
    LET minSize == RoundUpTo8(minSize0)
    IN IF minSize > minBlockSize THEN minSize ELSE minBlockSize

\* ---- PoolAllocator::AllocBlock: the fields after the call (done), after the
\* ---- statements before line 125 (partial), and whether the call has
\* ---- undefined behaviour: line 125 stores through currBlock, which is NULL
\* ---- for the first block, and lines 123-124 write the header of a node
\* ---- whose calloc() size wrapped below sizeof(MemBlockNode).
AllocBlock_resetPrev(minSize0) ==
    LET size == NewBlockSize(minSize0)
        bytes == (SizeofMemBlockNode + size) % SizeMod
        node == Calloc
        first1 == IF firstBlock = NULL THEN node ELSE firstBlock
        h1 == [heap EXCEPT ![node] =
                  [live |-> TRUE, next |-> NULL, size |-> size, free |-> size, alloc |-> bytes]]
        h2 == IF currBlock = NULL
              THEN h1
              ELSE [h1 EXCEPT ![currBlock].next = node, ![currBlock].free = h1[currBlock].size]
    IN [ub |-> (currBlock = NULL) \/ (bytes < SizeofMemBlockNode),
        partial |-> [firstBlock |-> first1, currMem |-> [blk |-> node, off |-> 0],
                     currBlock |-> currBlock, heap |-> h1],
        done |-> [firstBlock |-> first1, currMem |-> [blk |-> node, off |-> 0],
                  currBlock |-> node, heap |-> h2]]

AllocBlock_noLink(minSize0) ==
    LET size == NewBlockSize(minSize0)
        bytes == (SizeofMemBlockNode + size) % SizeMod
        node == Calloc
        first1 == IF firstBlock = NULL THEN node ELSE firstBlock
        h1 == [heap EXCEPT ![node] =
                  [live |-> TRUE, next |-> NULL, size |-> size, free |-> size, alloc |-> bytes]]
    IN [ub |-> bytes < SizeofMemBlockNode,
        partial |-> [firstBlock |-> first1, currMem |-> [blk |-> node, off |-> 0],
                     currBlock |-> currBlock, heap |-> h1],
        done |-> [firstBlock |-> first1, currMem |-> [blk |-> node, off |-> 0],
                  currBlock |-> node, heap |-> h1]]

AllocBlock(minSize0) ==
    LET size == NewBlockSize(minSize0)
        bytes == (SizeofMemBlockNode + size) % SizeMod
        node == Calloc
        first1 == IF firstBlock = NULL THEN node ELSE firstBlock
        h1 == [heap EXCEPT ![node] =
                  [live |-> TRUE, next |-> NULL, size |-> size, free |-> size, alloc |-> bytes]]
        h2 == IF currBlock = NULL THEN h1 ELSE [h1 EXCEPT ![currBlock].next = node]
    IN [ub |-> (currBlock = NULL) \/ (bytes < SizeofMemBlockNode),
        partial |-> [firstBlock |-> first1, currMem |-> [blk |-> node, off |-> 0],
                     currBlock |-> currBlock, heap |-> h1],
        done |-> [firstBlock |-> first1, currMem |-> [blk |-> node, off |-> 0],
                  currBlock |-> node, heap |-> h2]]

\* ---- PoolAllocator::Alloc
Alloc(size0) ==
    /\ ~crashed
    /\ Len(allocs) < MaxAllocs
    /\ LET size == RoundUpTo8(size0)
           grow == currBlock = NULL \/ heap[currBlock].free < size
       IN /\ grow => \E b \in Nodes : ~heap[b].live
          /\ LET ab == IF grow
                       THEN AllocBlock(size)
                       ELSE [ub |-> FALSE,
                             done |-> [firstBlock |-> firstBlock, currMem |-> currMem,
                                       currBlock |-> currBlock, heap |-> heap]]
             IN \E trap \in (IF ab.ub THEN BOOLEAN ELSE {FALSE}) :
                  IF trap
                  THEN /\ crashed' = TRUE
                       /\ firstBlock' = ab.partial.firstBlock
                       /\ currMem' = ab.partial.currMem
                       /\ currBlock' = ab.partial.currBlock
                       /\ heap' = ab.partial.heap
                       /\ lastOp' = Op("Alloc", size0, 0, NullMem, firstBlock = NULL, <<>>)
                       /\ UNCHANGED <<minBlockSize, allocs>>
                  ELSE LET s == ab.done
                           mem == s.currMem
                       IN /\ currMem' = [mem EXCEPT !.off = (@ + size) % SizeMod]
                          /\ heap' = [s.heap EXCEPT ![s.currBlock].free = (@ - size) % SizeMod]
                          /\ currBlock' = s.currBlock
                          /\ firstBlock' = s.firstBlock
                          /\ allocs' = Append(allocs,
                                 [blk |-> mem.blk, off |-> mem.off, req |-> size0,
                                  newBlock |-> grow,
                                  adv |-> currMem'.off - mem.off,
                                  dec |-> s.heap[s.currBlock].free - heap'[s.currBlock].free])
                          /\ lastOp' = Op("Alloc", size0, 0, mem, firstBlock = NULL, <<>>)
                          /\ UNCHANGED <<minBlockSize, crashed>>

\* ---- PoolAllocator::Free
Free_releases(mem) ==
    /\ ~crashed
    /\ heap' = IF mem.blk = NULL THEN heap ELSE [heap EXCEPT ![mem.blk] = FreeNode]
    /\ lastOp' = Op("Free", 0, 0, mem, firstBlock = NULL, <<>>)
    /\ UNCHANGED <<minBlockSize, currMem, currBlock, firstBlock, crashed, allocs>>

Free(mem) ==
    /\ ~crashed
    /\ lastOp' = Op("Free", 0, 0, mem, firstBlock = NULL, <<>>)
    /\ UNCHANGED <<minBlockSize, currMem, currBlock, firstBlock, heap, crashed, allocs>>

\* ---- PoolAllocator::Realloc
Realloc_returnsNull(mem, size) ==
    /\ ~crashed
    /\ lastOp' = Op("Realloc", size, 0, NullMem, firstBlock = NULL, <<>>)
    /\ UNCHANGED <<minBlockSize, currMem, currBlock, firstBlock, heap, crashed, allocs>>

Realloc(mem, size) ==
    /\ ~crashed
    /\ IF CrashAlwaysIf(TRUE)
       THEN crashed' = TRUE
       ELSE UNCHANGED crashed
    /\ lastOp' = Op("Realloc", size, 0, NullMem, firstBlock = NULL, <<>>)
    /\ UNCHANGED <<minBlockSize, currMem, currBlock, firstBlock, heap, allocs>>

\* ---- FindNthPieceOfSize's loop from block curr on; size is already rounded.
\* ---- dz is what Used() / n does when n = 0. The result is the pointer
\* ---- returned (p), or a division trap.
RECURSIVE FindWalk(_, _, _, _)
FindWalk(curr, size, n, dz) ==
    IF curr = NULL
    THEN [trap |-> FALSE, p |-> NullMem]
    ELSE IF n = 0 /\ dz = "trap"
    THEN [trap |-> TRUE, p |-> NullMem]
    ELSE LET piecesInBlock == IF n = 0
                              THEN (IF dz = "zero" THEN 0 ELSE SIZE_MAX)
                              ELSE Used(curr) \div n
         IN IF piecesInBlock > n
            THEN [trap |-> FALSE, p |-> [blk |-> curr, off |-> (n * size) % SizeMod]]
            ELSE FindWalk(heap[curr].next, size, (n - piecesInBlock) % SizeMod, dz)

\* ---- PoolAllocator::FindNthPieceOfSize
FindNthPieceOfSize(size0, n) ==
    /\ ~crashed
    /\ \E dz \in (IF FindWalk(firstBlock, RoundUpTo8(size0), n, "trap").trap
                 THEN DivZeroOutcomes
                 ELSE {"trap"}) :
         LET r == FindWalk(firstBlock, RoundUpTo8(size0), n, dz)
         IN IF r.trap
            THEN /\ crashed' = TRUE
                 /\ lastOp' = Op("FindNthPieceOfSize", size0, n, NullMem, firstBlock = NULL, <<>>)
            ELSE /\ UNCHANGED crashed
                 /\ lastOp' = Op("FindNthPieceOfSize", size0, n, r.p, firstBlock = NULL, <<>>)
    /\ UNCHANGED <<minBlockSize, currMem, currBlock, firstBlock, heap, allocs>>

\* the pointers a caller holds
Returned == {[blk |-> allocs[i].blk, off |-> allocs[i].off] : i \in DOMAIN allocs}

PoolOps ==
    \/ \E n \in MinBlockSizes : SetMinBlockSize(n)
    \/ \E s \in AllocSizes : Alloc(s)
    \/ FreeAll
    \/ \E p \in Returned \cup {NullMem} : Free(p)
    \/ \E p \in Returned \cup {NullMem}, s \in {0, 8} : Realloc(p, s)
    \/ \E s \in PieceSizes, n \in PieceIndexes : FindNthPieceOfSize(s, n)

\* ---- a pool operation called directly
Next == PoolOps /\ helper' = NoCall /\ UNCHANGED fa

\* ---- Allocator::Alloc (static), also as called by Allocator::Dup, which
\* ---- copies copyLen bytes when the result is not NULL
AllocatorAllocAs(fn, a, mem, size, padding, allocSize) ==
    IF a = NULL
    THEN /\ ~crashed
         /\ \E ret \in {PlatMem, NullMem} :
              helper' = Call(fn, a, mem, size, padding,
                             <<PlatCall("malloc", NullMem, allocSize)>>,
                             ret, fn = "Dup" /\ ret # NullMem)
         /\ lastOp' = Op("none", 0, 0, NullMem, firstBlock = NULL, <<>>)
         /\ UNCHANGED <<minBlockSize, currMem, currBlock, firstBlock, heap, crashed, allocs>>
    ELSE /\ Alloc(allocSize)
         /\ helper' = Call(fn, a, mem, size, padding, <<>>, lastOp'.ret,
                           fn = "Dup" /\ ~crashed' /\ lastOp'.ret # NullMem)

AllocatorAlloc(a, size) == AllocatorAllocAs("Alloc", a, NullMem, size, 0, size)

\* ---- Allocator::Free (static)
AllocatorFree_noDispatch(a, p) ==
    /\ ~crashed
    /\ helper' = Call("Free", a, p, 0, 0, <<PlatCall("free", p, 0)>>, NullMem, FALSE)
    /\ lastOp' = Op("none", 0, 0, NullMem, firstBlock = NULL, <<>>)
    /\ UNCHANGED <<minBlockSize, currMem, currBlock, firstBlock, heap, crashed, allocs>>

AllocatorFree(a, p) ==
    IF a = NULL
    THEN /\ ~crashed
         /\ helper' = Call("Free", a, p, 0, 0, <<PlatCall("free", p, 0)>>, NullMem, FALSE)
         /\ lastOp' = Op("none", 0, 0, NullMem, firstBlock = NULL, <<>>)
         /\ UNCHANGED <<minBlockSize, currMem, currBlock, firstBlock, heap, crashed, allocs>>
    ELSE /\ Free(p)
         /\ helper' = Call("Free", a, p, 0, 0, <<>>, NullMem, FALSE)

\* ---- Allocator::Realloc (static)
AllocatorRealloc(a, mem, size) ==
    IF a = NULL
    THEN /\ ~crashed
         /\ \E ret \in {PlatMem, NullMem} :
              helper' = Call("Realloc", a, mem, size, 0,
                             <<PlatCall("realloc", mem, size)>>, ret, FALSE)
         /\ lastOp' = Op("none", 0, 0, NullMem, firstBlock = NULL, <<>>)
         /\ UNCHANGED <<minBlockSize, currMem, currBlock, firstBlock, heap, crashed, allocs>>
    ELSE /\ Realloc(mem, size)
         /\ helper' = Call("Realloc", a, mem, size, 0, <<>>, lastOp'.ret, FALSE)

\* ---- Allocator::Dup (static)
AllocatorDup(a, mem, size, padding) ==
    AllocatorAllocAs("Dup", a, mem, size, padding, (size + padding) % SizeMod)

Handles == {NULL, ThisPool}
\* the pointers and sizes handed to the helpers
Pointers == Returned \cup {NullMem, PlatMem}
HelperSizes == {0, 8, SIZE_MAX}
DupSizes == {8, SIZE_MAX}
Paddings == {0, 1}

\* ---- the static helpers, with a NULL handle or the pool as allocator,
\* ---- beside direct calls of the pool's Realloc and FreeAll
StaticOps ==
    \/ \E a \in Handles, s \in HelperSizes : AllocatorAlloc(a, s)
    \/ \E a \in Handles, p \in Pointers : AllocatorFree(a, p)
    \/ \E a \in Handles, p \in Pointers, s \in {0, 8} : AllocatorRealloc(a, p, s)
    \/ \E a \in Handles, s \in DupSizes, g \in Paddings : AllocatorDup(a, PlatMem, s, g)
    \/ (\E p \in Returned \cup {NullMem}, s \in {0, 8} : Realloc(p, s)) /\ helper' = NoCall
    \/ FreeAll /\ helper' = NoCall

NextStatic == StaticOps /\ UNCHANGED fa

\* ---- FixedArray::FixedArray
FixedArrayCtor(sizeofT, budget, elCount) ==
    /\ fa.state = "none"
    /\ LET stackEls == budget \div sizeofT
       IN IF elCount > stackEls
          THEN \E ok \in BOOLEAN :
                 fa' = FixedArray("live", sizeofT, budget, elCount,
                                  IF ok THEN HeapBuf((elCount * sizeofT) % SizeMod) ELSE NoBuf,
                                  ~ok, "none")
          ELSE fa' = FixedArray("live", sizeofT, budget, elCount, NoBuf, FALSE, "none")
    /\ UNCHANGED <<minBlockSize, currMem, currBlock, firstBlock, heap, crashed, allocs,
                   lastOp, helper>>

\* ---- FixedArray::Get
Get ==
    /\ fa.state = "live"
    /\ fa' = [fa EXCEPT !.got = IF ~fa.memBuf.null THEN "memBuf" ELSE "stackBuf"]
    /\ UNCHANGED <<minBlockSize, currMem, currBlock, firstBlock, heap, crashed, allocs,
                   lastOp, helper>>

\* ---- FixedArray::~FixedArray: free(memBuf); the object is gone
FixedArrayDtor ==
    /\ fa.state = "live"
    /\ fa' = NoFixedArray
    /\ UNCHANGED <<minBlockSize, currMem, currBlock, firstBlock, heap, crashed, allocs,
                   lastOp, helper>>

ElementSizes == {1, 4, 8, 24}
Budgets == {24, 30, 64}
ElCounts == (0 .. 9) \cup {SizeMod \div 8, SizeMod \div 8 + 1, SizeMod \div 4 + 2, SIZE_MAX}

NextFixedArray ==
    \/ \E t \in ElementSizes, b \in Budgets, n \in ElCounts : FixedArrayCtor(t, b, n)
    \/ Get
    \/ FixedArrayDtor

Spec == Init /\ [][Next]_vars
SpecStatic == Init /\ [][NextStatic]_vars
SpecFixedArray == Init /\ [][NextFixedArray]_vars

\* ======================================================================
\* Claims
\* ======================================================================

LiveNodes == {b \in Nodes : heap[b].live}
\* n rounded up to the next multiple of 8, as a number (no wrap-around)
NextMultipleOf8(n) == ((n + 7) \div 8) * 8
Max(a, b) == IF a > b THEN a ELSE b

\* C1: Alloc on an Empty pool (heap allocation succeeding) completes without
\* a fatal error: it creates exactly one block, which becomes firstBlock and
\* currBlock, and returns the start of that block's data region.
CE_C1 ==
    (lastOp.op = "Alloc" /\ lastOp.empty) =>
        /\ ~crashed
        /\ Cardinality(LiveNodes) = 1
        /\ firstBlock \in LiveNodes
        /\ currBlock = firstBlock
        /\ lastOp.ret = [blk |-> firstBlock, off |-> 0]

\* C2: every region [address, address + size rounded up to 8) returned since
\* the pool was last empty lies inside the data region of its block, and no
\* two such regions of non-zero size overlap.
CE_C2 ==
    /\ \A i \in DOMAIN allocs :
         /\ allocs[i].blk \in LiveNodes
         /\ 0 <= allocs[i].off
         /\ allocs[i].off + NextMultipleOf8(allocs[i].req) <= heap[allocs[i].blk].size
    /\ \A i, j \in DOMAIN allocs :
         (i < j /\ allocs[i].req > 0 /\ allocs[j].req > 0 /\ allocs[i].blk = allocs[j].blk) =>
             \/ allocs[i].off + NextMultipleOf8(allocs[i].req) <= allocs[j].off
             \/ allocs[j].off + NextMultipleOf8(allocs[j].req) <= allocs[i].off

\* C3: after N allocations of one size E > 0, FindNthPieceOfSize(E, i) returns,
\* for every i < N, the address the i-th Alloc returned.
CE_C3 ==
    (/\ lastOp.op = "FindNthPieceOfSize"
     /\ lastOp.arg > 0
     /\ lastOp.n < Len(allocs)
     /\ \A i \in DOMAIN allocs : allocs[i].req = lastOp.arg) =>
        /\ ~crashed
        /\ lastOp.ret = [blk |-> allocs[lastOp.n + 1].blk, off |-> allocs[lastOp.n + 1].off]

\* C3, second half of the divergence: the lookup of an element that lives in
\* a later block, without any division by zero.
CE_C3_laterBlock ==
    (/\ lastOp.op = "FindNthPieceOfSize"
     /\ lastOp.arg > 0
     /\ lastOp.n > 0
     /\ lastOp.n < Len(allocs)
     /\ \A i \in DOMAIN allocs : allocs[i].req = lastOp.arg) =>
        lastOp.ret = [blk |-> allocs[lastOp.n + 1].blk, off |-> allocs[lastOp.n + 1].off]

PoolState ==
    [minBlockSize |-> minBlockSize, currMem |-> currMem, currBlock |-> currBlock,
     firstBlock |-> firstBlock, heap |-> heap]
\* a newly constructed pool on which SetMinBlockSize(m) was called
NewPool(m) ==
    [minBlockSize |-> m, currMem |-> NullMem, currBlock |-> NULL,
     firstBlock |-> NULL, heap |-> [b \in Nodes |-> FreeNode]]

\* C4 as stated: after FreeAll the pool is in the state of a newly
\* constructed pool, the minimum block size included.
CE_C4 ==
    (lastOp.op = "FreeAll") => PoolState = NewPool(DefaultMinBlockSize)

\* C4 amended: FreeAll leaves the pool in the state of a newly constructed
\* pool whose minimum block size was set to the value the released pool was
\* configured with; FreeAll does not touch minBlockSize.
T_C4 ==
    [][(lastOp'.op = "FreeAll") => (PoolState' = NewPool(minBlockSize))]_vars

W_C4 ==
    /\ lastOp.op = "FreeAll"
    /\ ~lastOp.empty
    /\ minBlockSize # DefaultMinBlockSize
    /\ ~crashed

\* C5: FreeAll releases every block created since the pool was last empty
\* exactly once, leaves no head, no current block and no cursor, never
\* faults, and on an Empty pool releases nothing and changes no state.
T_C5 ==
    [][(lastOp'.op = "FreeAll") =>
          /\ ~crashed'
          /\ Range(lastOp'.freed) = {allocs[i].blk : i \in DOMAIN allocs}
          /\ Len(lastOp'.freed) = Cardinality(Range(lastOp'.freed))
          /\ Range(lastOp'.freed) = LiveNodes
          /\ \A b \in Nodes : ~heap'[b].live
          /\ firstBlock' = NULL /\ currBlock' = NULL /\ currMem' = NullMem
          /\ (lastOp.op = "FreeAll" \/ allocs = <<>>) =>
                /\ lastOp'.freed = <<>>
                /\ UNCHANGED poolVars
      ]_vars

W_C5 ==
    /\ lastOp.op = "FreeAll"
    /\ Len(lastOp.freed) >= 2
    /\ ~crashed

\* C6: SetMinBlockSize(n) on an Empty pool sets the minimum block size to n;
\* after an allocation and before the next FreeAll it is a fatal error and
\* leaves the minimum block size as it was.
T_C6 ==
    [][(lastOp'.op = "SetMinBlockSize") =>
          IF allocs = <<>>
          THEN ~crashed' /\ minBlockSize' = lastOp'.arg
          ELSE crashed' /\ minBlockSize' = minBlockSize
      ]_vars

W_C6 ==
    /\ lastOp.op = "SetMinBlockSize"
    /\ allocs # <<>>
    /\ crashed
    /\ minBlockSize # lastOp.arg

\* C7: a block created by Alloc(S) has capacity exactly
\* max(minimum block size, S rounded up to a multiple of 8), and S fits in it.
CE_C7 ==
    \A i \in DOMAIN allocs :
        allocs[i].newBlock =>
            /\ heap[allocs[i].blk].size = Max(minBlockSize, NextMultipleOf8(allocs[i].req))
            /\ allocs[i].req <= heap[allocs[i].blk].size

\* C8: Alloc(s) advances the cursor and decreases the free counter by exactly
\* s rounded up to the next multiple of 8, and returns an address at a
\* multiple of 8 from the start of the block's data region.
CE_C8 ==
    \A i \in DOMAIN allocs :
        /\ allocs[i].adv = NextMultipleOf8(allocs[i].req)
        /\ allocs[i].dec = NextMultipleOf8(allocs[i].req)
        /\ allocs[i].off % 8 = 0

\* C9: the bytes reserved for Alloc(size) are at least size, a block created
\* for it has capacity at least size, and neither the rounding nor the size
\* handed to calloc() wraps around.
CE_C9 ==
    \A i \in DOMAIN allocs :
        /\ allocs[i].adv >= allocs[i].req
        /\ allocs[i].newBlock =>
              /\ heap[allocs[i].blk].size >= allocs[i].req
              /\ heap[allocs[i].blk].alloc = SizeofMemBlockNode + heap[allocs[i].blk].size

\* C9, the calloc() size alone: a request that RoundUpTo8 does not wrap
\* still gets a block whose allocation holds header and capacity.
CE_C9_calloc ==
    \A i \in DOMAIN allocs :
        (allocs[i].newBlock /\ allocs[i].adv >= allocs[i].req) =>
            heap[allocs[i].blk].alloc >= SizeofMemBlockNode + heap[allocs[i].blk].size

\* C10: Free changes neither the minimum block size, the chain, any block's
\* capacity or free counter, the current block nor the cursor, and never
\* faults.
T_C10 ==
    [][(lastOp'.op = "Free") => (UNCHANGED poolVars /\ ~crashed')]_vars

W_C10 ==
    /\ lastOp.op = "Free"
    /\ lastOp.ret # NullMem
    /\ Len(allocs) >= 2
    /\ ~crashed

\* C12: FindNthPieceOfSize(E, n) returns NULL, without a fault, whenever no
\* n-th element of size E has been allocated: n exceeds the number of
\* elements held, or the pool is Empty.
CE_C12 ==
    (/\ lastOp.op = "FindNthPieceOfSize"
     /\ lastOp.arg > 0
     /\ \A i \in DOMAIN allocs : allocs[i].req = lastOp.arg
     /\ (lastOp.n > Len(allocs) \/ allocs = <<>>)) =>
        /\ ~crashed
        /\ lastOp.ret = NullMem

\* C12 on an Empty pool alone, where the loop of FindNthPieceOfSize does not
\* run: the part of the claim the code satisfies.
C12_EmptyPool ==
    (lastOp.op = "FindNthPieceOfSize" /\ lastOp.empty) =>
        (~crashed /\ lastOp.ret = NullMem)

\* what C16 says of an Alloc step that returns, with rounded(s) the request
\* rounded up to 8: a block is created iff there is no current block or its
\* free count is below the rounded request; otherwise the chain is
\* unchanged; a created block is linked after the previous tail, is the new
\* tail and the current block, and the address returned is the start of its
\* data region.
GrowthRule(rounded(_)) ==
    (lastOp'.op = "Alloc" /\ ~crashed') =>
        LET created == LiveNodes' \ LiveNodes
            need == currBlock = NULL \/ heap[currBlock].free < rounded(lastOp'.arg)
        IN /\ (created # {}) <=> need
           /\ (created = {}) =>
                 /\ Chain(firstBlock, MaxBlocks + 1)' = Chain(firstBlock, MaxBlocks + 1)
                 /\ currBlock' = currBlock
           /\ \A n \in created :
                 /\ created = {n}
                 /\ Chain(firstBlock, MaxBlocks + 1)' = Chain(firstBlock, MaxBlocks + 1) \o <<n>>
                 /\ currBlock # NULL => heap'[currBlock].next = n
                 /\ heap'[n].next = NULL
                 /\ currBlock' = n
                 /\ lastOp'.ret = [blk |-> n, off |-> 0]

\* C16: Alloc creates a block iff there is no current block or the current
\* block's free count is less than the request rounded up to 8, leaves the
\* chain unchanged otherwise, and appends a created block as the new tail
\* and current block.
CE_C16 == [][GrowthRule(NextMultipleOf8)]_vars

\* C16 with the request rounded as RoundUpTo8 computes it (wrapping): what
\* the code satisfies.
C16_AsComputed == [][GrowthRule(RoundUpTo8)]_vars

\* C17: across every operation but FreeAll, no block's free counter
\* increases and no block's capacity changes; a counter changes only in the
\* block that is the current block before and after the step, so a block
\* that is no longer current keeps its capacity and free counter.
T_C17 ==
    [][(lastOp'.op # "FreeAll" /\ ~crashed') =>
          \A b \in LiveNodes :
              /\ heap'[b].live
              /\ heap'[b].size = heap[b].size
              /\ heap'[b].free <= heap[b].free
              /\ (heap'[b].free # heap[b].free) => (b = currBlock /\ b = currBlock')
              /\ (b # currBlock) => (b # currBlock')
      ]_vars

\* a block that is no longer the current one has an unused tail
W_C17 ==
    /\ ~crashed
    /\ lastOp.op = "Alloc"
    /\ \E b \in LiveNodes : b # currBlock /\ heap[b].free > 0
    /\ heap[currBlock].free < heap[currBlock].size

\* C18: between operations, when there is a current block the cursor is the
\* start of its data region plus its used bytes (capacity - free), and every
\* block of the chain has 0 <= free <= capacity.
T_C18 ==
    ~crashed =>
        /\ currBlock # NULL =>
              /\ currBlock \in LiveNodes
              /\ currMem = [blk |-> currBlock,
                            off |-> heap[currBlock].size - heap[currBlock].free]
        /\ \A b \in LiveNodes : 0 <= heap[b].free /\ heap[b].free <= heap[b].size

W_C18 ==
    /\ ~crashed
    /\ currBlock # NULL
    /\ currBlock # firstBlock
    /\ heap[currBlock].free > 0
    /\ heap[currBlock].free < heap[currBlock].size

\* C19: between operations, firstBlock, currBlock and currMem are all NULL
\* or all non-NULL; in the latter case the chain from firstBlock is finite
\* and acyclic, holds exactly the blocks created since the pool was last
\* empty, and ends in currBlock, whose next pointer is NULL.
T_C19 ==
    ~crashed =>
        /\ \/ firstBlock = NULL /\ currBlock = NULL /\ currMem = NullMem
           \/ firstBlock # NULL /\ currBlock # NULL /\ currMem.blk # NULL
        /\ firstBlock # NULL =>
              LET chain == Chain(firstBlock, MaxBlocks + 1)
              IN /\ Len(chain) <= MaxBlocks
                 /\ Len(chain) = Cardinality(Range(chain))
                 /\ Range(chain) = {allocs[i].blk : i \in DOMAIN allocs}
                 /\ Range(chain) = LiveNodes
                 /\ chain[Len(chain)] = currBlock
                 /\ heap[currBlock].next = NULL
        /\ firstBlock = NULL => (LiveNodes = {} /\ allocs = <<>>)

W_C19 ==
    /\ ~crashed
    /\ firstBlock # NULL
    /\ Len(Chain(firstBlock, MaxBlocks + 1)) >= 3

\* C11: PoolAllocator::Realloc, called directly or through the static
\* Allocator::Realloc with the pool as allocator, fails fatally in every
\* pool state and for every argument: it returns no block and changes
\* neither the chain, the cursor nor any free counter.
T_C11 ==
    [][(lastOp'.op = "Realloc") =>
          /\ crashed'
          /\ lastOp'.ret = NullMem
          /\ helper'.ret = NullMem
          /\ helper'.plat = <<>>
          /\ UNCHANGED <<poolVars, allocs>>
      ]_vars

\* reached through the static helper, with a null block and size 0, on a
\* pool that holds allocations
W_C11 ==
    /\ lastOp.op = "Realloc"
    /\ helper.fn = "Realloc"
    /\ helper.a = ThisPool
    /\ helper.p = NullMem
    /\ helper.size = 0
    /\ allocs # <<>>
    /\ crashed

\* the platform heap call a static helper makes with a NULL handle
ExpectedPlatCall(c) ==
    CASE c.fn = "Alloc" -> PlatCall("malloc", NullMem, c.size)
      [] c.fn = "Free" -> PlatCall("free", c.p, 0)
      [] c.fn = "Realloc" -> PlatCall("realloc", c.p, c.size)
      [] c.fn = "Dup" -> PlatCall("malloc", NullMem, (c.size + c.padding) % SizeMod)
\* the allocator operation a static helper calls with a non-NULL handle
ExpectedPoolOp(c) ==
    CASE c.fn = "Alloc" -> Op("Alloc", c.size, 0, c.ret, firstBlock = NULL, <<>>)
      [] c.fn = "Free" -> Op("Free", 0, 0, c.p, firstBlock = NULL, <<>>)
      [] c.fn = "Realloc" -> Op("Realloc", c.size, 0, NullMem, firstBlock = NULL, <<>>)
      [] c.fn = "Dup" -> Op("Alloc", (c.size + c.padding) % SizeMod, 0, c.ret,
                            firstBlock = NULL, <<>>)

\* C15: a static helper called with a NULL handle makes exactly the platform
\* heap call (malloc, free, realloc; Dup: malloc, and a copy when it
\* succeeds) and no allocator operation; called with a handle it runs
\* exactly the allocator's own operation and makes no platform heap call
\* itself, so Allocator::Free(pool, p) never hands p to free().
T_C15 ==
    [][(helper'.fn # "none") =>
          IF helper'.a = NULL
          THEN /\ helper'.plat = <<ExpectedPlatCall(helper')>>
               /\ lastOp'.op = "none"
               /\ UNCHANGED <<poolVars, crashed, allocs>>
               /\ helper'.copied <=> (helper'.fn = "Dup" /\ helper'.ret # NullMem)
          ELSE /\ helper'.plat = <<>>
               /\ lastOp' = ExpectedPoolOp(helper')
               /\ helper'.copied <=> (helper'.fn = "Dup" /\ ~crashed')
      ]_vars

\* Allocator::Free(pool, p) with p inside a pool block
W_C15 ==
    /\ helper.fn = "Free"
    /\ helper.a = ThisPool
    /\ helper.p \in Returned
    /\ helper.plat = <<>>
    /\ ~crashed


\* ---- FixedArray
BytesNeeded == fa.elCount * fa.sizeofT
UsesInline == fa.memBuf.null

\* C13: for every element size, byte budget and element count the inline
\* buffer is used exactly when count * sizeof(element) <= budget, otherwise
\* a heap buffer of exactly count elements; every Get() returns the start
\* of that buffer.  Stated for constructions whose malloc() did not fail.
\* Violated: elCount * sizeof(T) is computed in size_t and wraps, so the
\* heap buffer is shorter than count elements.
CE_C13 ==
    (fa.state = "live" /\ ~fa.failed) =>
        /\ UsesInline <=> (BytesNeeded <= fa.budget)
        /\ ~UsesInline => fa.memBuf.bytes = BytesNeeded
        /\ fa.got # "none" => fa.got = (IF BytesNeeded <= fa.budget THEN "stackBuf" ELSE "memBuf")

\* the same statement for the counts whose byte size fits in size_t: holds
C13_NoOverflow ==
    (fa.state = "live" /\ ~fa.failed /\ BytesNeeded <= SIZE_MAX) =>
        /\ UsesInline <=> (BytesNeeded <= fa.budget)
        /\ ~UsesInline => fa.memBuf.bytes = BytesNeeded
        /\ fa.got # "none" => fa.got = (IF BytesNeeded <= fa.budget THEN "stackBuf" ELSE "memBuf")

\* C14: when the construction needed the heap buffer and malloc() failed,
\* Get() never returns the inline buffer.  Violated: memBuf stays NULL and
\* Get() falls through to stackBuf, which has fewer than count elements.
CE_C14 ==
    (fa.state = "live" /\ fa.failed) => fa.got # "stackBuf"

\* the inline buffer handed back after a failed malloc() is always too small
C14_InlineTooSmall ==
    (fa.state = "live" /\ fa.failed /\ fa.got = "stackBuf") =>
        fa.budget \div fa.sizeofT < fa.elCount

====
